---- MODULE Spec2Model ----
(***************************************************************************)
(* Model of mayo/task/base.py: class TFTaskBase.                           *)
(*                                                                         *)
(* The state is one task object under construction (the locals of          *)
(* _instantiate_nets, the attributes assigned on self, the shared          *)
(* estimator and the stack of device scopes) plus, once the task exists,   *)
(* the generators returned by map(), the eager map_train()/map_eval()      *)
(* calls and direct calls of the override points.                          *)
(***************************************************************************)
EXTENDS Integers, Sequences, FiniteSets, TLC

\* ------------------------------------------------------------------------
\* Bounds
\* ------------------------------------------------------------------------
MaxGpus == 2

\* ------------------------------------------------------------------------
\* Python values.  Every value is a record whose first field is its tag, so
\* that values of different kinds can be compared.
\* ------------------------------------------------------------------------
None == [tag |-> "None"]

Tensor(v) == [tag |-> "tensor", val |-> v]

\* A str; val is the sequence of its dot-separated segments.
Str(segs) == [tag |-> "str", val |-> segs]

\* A collections.Mapping; val is the sequence of its (key, value) items in
\* iteration order.
Mapping(items) == [tag |-> "map", val |-> items]

IsMapping(v) == v.tag = "map"

\* str(v) as the segments the formatted text is made of.
StrOf(v) == IF v.tag = "str" THEN v.val ELSE <<"<" \o v.tag \o ">">>

\* '{}.{}'.format(root, key)
DotFormat(root, key) == Str(StrOf(root) \o <<key>>)

\* ------------------------------------------------------------------------
\* Collaborators: sessions, the task specialization, the data source.
\* ------------------------------------------------------------------------
\* The session classes; Test is the one is_test looks for.
SessionTypes == {"Train", "Evaluate", "Test"}

ModeOf(type) ==
    CASE type = "Train" -> "train"
      [] type = "Evaluate" -> "validate"
      [] type = "Test" -> "test"

Sessions ==
    { [type |-> t, mode |-> ModeOf(t), num_gpus |-> n] :
        t \in SessionTypes, n \in 1..MaxGpus }

\* The override points of TFTaskBase that raise unless a specialization
\* implements them, and the transform hook, which has a default.
Required == {"generate", "augment", "train", "eval", "test"}

Overrides == Required \cup {"transform"}

\* Truth structures a generate() may yield and names an augment() may yield.
TruthVals ==
    { Tensor("t"),
      Mapping(<< <<"class", Tensor("t")>> >>),
      Mapping(<< <<"box", Mapping(<< <<"x", Tensor("u")>> >>)>>,
                 <<"class", Tensor("t")>> >>) }

NameVals == { Str(<<"img0">>), Str(<<"img1">>) }

DataVals == { Tensor("d0"), Tensor("d1") }

GeneratePairs == { <<d, t>> : d \in DataVals, t \in TruthVals }

AugmentPairs == { <<d, n>> : d \in DataVals, n \in NameVals }

\* The task specializations considered: the overrides each implements.
Specializations ==
    { {},
      {"generate", "train", "eval"},
      {"augment", "test"},
      {"generate", "augment"},
      Required,
      Required \cup {"transform"} }

\* The functions handed to map(): the train and eval methods and a function
\* of the caller.
MapFuncs == {"train", "eval", "f"}

\* The generators of map() that may be alive together.
Iters == {1, 2}

\* What net.outputs() may give.
OutputVals ==
    { Tensor("p"),
      Mapping(<< <<"aux", Mapping(<< <<"logits", Tensor("q")>> >>)>>,
                 <<"class", Tensor("p")>> >>) }

\* ------------------------------------------------------------------------
\* Exceptions
\* ------------------------------------------------------------------------
NoError == [kind |-> "none", what |-> "none"]

\* mayo.error.NotImplementedError raised by the default of override `what`.
Unimplemented(what) == [kind |-> "NotImplementedError", what |-> what]

\* An error of a collaborator (data source, net builder, estimator, hook).
External(what) == [kind |-> "external", what |-> what]

\* ------------------------------------------------------------------------
\* Pure parts of the code
\* ------------------------------------------------------------------------
\* _gpu_context: the device and the name scope it opens for gid.
GpuContext(gid) == [device |-> <<"/gpu:", gid>>, name_scope |-> <<"tower_", gid>>]

\* Who entered a context: __init__, the k-th generator of map(), or a list()
\* that drains one.
InitOwner == <<"init", 0>>

MapOwner(k) == <<"map", k>>

ListOwner == <<"list", 0>>

\* Entering the context pushes it for its owner; leaving it removes the
\* owner's innermost entry.
EnterContext(stack, owner, gid) == Append(stack, [owner |-> owner, ctx |-> GpuContext(gid)])

ExitContextLeaked(stack, owner) == stack

LastOf(stack, owner) ==
    LET idx == { k \in 1..Len(stack) : stack[k].owner = owner }
    IN  CHOOSE k \in idx : \A j \in idx : j <= k

ExitContext(stack, owner) ==
    IF \E k \in 1..Len(stack) : stack[k].owner = owner
    THEN LET k == LastOf(stack, owner)
         IN  SubSeq(stack, 1, k - 1) \o SubSeq(stack, k + 1, Len(stack))
    ELSE stack

SplitAdditionalSwapped(is_test, additional) ==
    IF is_test THEN <<None, additional>> ELSE <<additional, None>>

\* name, truth = additional, None  /  None, additional
SplitAdditional(is_test, additional) ==
    IF is_test THEN <<additional, None>> ELSE <<None, additional>>

ReuseFlagNever(nets) == FALSE

\* bool(nets): the reuse flag handed to TFNet.
ReuseFlag(nets) == Len(nets) > 0

\* TFNet(session, model, data, reuse) built while `stack` is the stack of
\* device scopes; `out` is what its outputs() will give.
Innermost(stack) == IF stack = <<>> THEN None ELSE stack[Len(stack)].ctx

TFNet(sess, input, reuse, stack, out) ==
    [tag |-> "net", session |-> sess.type, data |-> input, reuse |-> reuse,
     ctx |-> Innermost(stack), out |-> out]

\* TFTaskBase.transform, and the transform of a specialization that
\* overrides it (it files the prediction under a key).
DefaultTransform(n, d, p, t) == <<d, p, t>>

OverriddenTransform(n, d, p, t) == <<d, Mapping(<< <<"out", p>> >>), t>>

Transform(overridden, n, d, p, t) ==
    IF "transform" \in overridden
    THEN OverriddenTransform(n, d, p, t)
    ELSE DefaultTransform(n, d, p, t)

\* history = 'infinite' if self.mode == 'validate' else None
History(mode) == IF mode = "validate" THEN Str(<<"infinite">>) ELSE None

\* The estimator.register(value, name, history=history) call.
RegisterCall(value, name, history) == [value |-> value, name |-> name, history |-> history]

RECURSIVE ConcatAll(_)
ConcatAll(seqs) == IF seqs = <<>> THEN <<>> ELSE Head(seqs) \o ConcatAll(Tail(seqs))

\* The inner function register(root, mapping) of _register_estimates: the
\* estimator.register calls it makes, in order.  The recursive call passes
\* (value, formatted path), in that order, as the code does.
RECURSIVE register(_, _, _)
register(root, mapping, history) ==
    IF ~IsMapping(mapping)
    THEN << RegisterCall(mapping, root, history) >>
    ELSE ConcatAll([k \in 1..Len(mapping.val) |->
            register(mapping.val[k][2], DotFormat(root, mapping.val[k][1]), history)])

\* _register_estimates(prediction, truth)
RegisterEstimates(p, t, mode) ==
    register(Str(<<"prediction">>), p, History(mode))
        \o register(Str(<<"truth">>), t, History(mode))

IsFirstReplicaAlways(gid) == TRUE

\* if i == 0
IsFirstReplica(gid) == gid = 0

ZipMisaligned(ns, ps, ts) ==
    [k \in 1..Len(ns) |-> <<ns[k], ps[k], ts[Len(ts) + 1 - k]>>]

\* zip(self.nets, self.predictions, self.truths)
Min3(a, b, c) == IF a <= b /\ a <= c THEN a ELSE IF b <= c THEN b ELSE c

Zip(ns, ps, ts) ==
    [k \in 1..Min3(Len(ns), Len(ps), Len(ts)) |-> <<ns[k], ps[k], ts[k]>>]

\* The value of func(net, prediction, truth) called while `stack` is the
\* stack of device scopes.
FuncVal(f, triple, stack) ==
    [f |-> f, net |-> triple[1], prediction |-> triple[2], truth |-> triple[3],
     ctx |-> Innermost(stack)]

\* ------------------------------------------------------------------------
\* State
\* ------------------------------------------------------------------------
VARIABLES
    session,      \* the session the task is constructed with
    impl,         \* the override points the task specialization implements
    self,         \* the attributes assigned on the task so far
    estimator,    \* the estimator.register calls made so far
    scopes,       \* the device scopes that are active, in order of entry
    pc,           \* where construction is
    error,        \* the exception construction raised, if any
    pulled,       \* the pairs taken from the data source so far
    i,            \* locals of _instantiate_nets ...
    nets, inputs, predictions, truths, names,
    data, name, truth, net, prediction,
    registered,   \* the (prediction, truth) of every _register_estimates call
    its,          \* the generators map() returned
    active,       \* the generator whose frame is running, 0 when none is
    ret           \* the outcome of the last map_train/map_eval/direct call

locals == <<i, nets, inputs, predictions, truths, names, data, name, truth, net, prediction>>

consVars ==
    <<session, impl, self, estimator, scopes, pc, error, pulled, locals, registered>>

vars == <<consVars, its, active, ret>>

\* A generator map() has not returned yet (nexts counts the next() calls of
\* its consumer), and no call made yet.
NoIter ==
    [st |-> "none", func |-> "none", i |-> -1, nexts |-> 0, results |-> <<>>,
     error |-> NoError]

NoCall == [call |-> "none", outcome |-> "none", value |-> <<>>, error |-> NoError]

\* ------------------------------------------------------------------------
\* Construction: __init__ and _instantiate_nets
\* ------------------------------------------------------------------------
InitWith(sessions, impls) ==
    /\ session \in sessions
    /\ impl \in impls
    /\ self = <<>>
    /\ estimator = <<>>
    /\ scopes = <<>>
    /\ pc = "new"
    /\ error = NoError
    /\ pulled = <<>>
    /\ i = -1
    /\ nets = <<>> /\ inputs = <<>> /\ predictions = <<>>
    /\ truths = <<>> /\ names = <<>>
    /\ data = None /\ name = None /\ truth = None /\ net = None
    /\ prediction = None
    /\ registered = <<>>
    /\ its = [k \in Iters |-> NoIter]
    /\ active = 0
    /\ ret = NoCall

\* An exception leaves _instantiate_nets and __init__: nothing catches it.
Raise(e) ==
    /\ pc' = "failed"
    /\ error' = e

\* __init__ up to the call of _instantiate_nets, and the five empty lists.
Construct ==
    /\ pc = "new"
    /\ self' = ("is_test" :> (session.type = "Test")) @@ ("num_gpus" :> session.num_gpus)
                 @@ ("mode" :> session.mode)
    /\ pc' = "source"
    /\ UNCHANGED <<session, impl, estimator, scopes, error, pulled, locals, registered>>
    /\ UNCHANGED <<its, active, ret>>

SourceNameAlwaysGenerate(is_test) == "generate"

\* The override the data comes from: augment(folder) for a test session,
\* generate() otherwise.
SourceName(is_test) == IF is_test THEN "augment" ELSE "generate"

\* iterer = self.augment(folder) / self.generate()
GetSource ==
    /\ pc = "source"
    /\ \/ /\ SourceName(self["is_test"]) \notin impl
          /\ Raise(Unimplemented(SourceName(self["is_test"])))
       \/ /\ SourceName(self["is_test"]) \in impl
          /\ \/ pc' = "next" /\ UNCHANGED error
             \/ Raise(External(SourceName(self["is_test"])))
    /\ UNCHANGED <<session, impl, self, estimator, scopes, pulled, locals, registered>>
    /\ UNCHANGED <<its, active, ret>>

\* The data source of a specialization yields one pair per device.
SourceHasNext == Len(pulled) < self["num_gpus"]

\* for i, (data, additional) in enumerate(iterer): ... name, truth = ...
NextPair(generated, augmented) ==
    /\ pc = "next"
    /\ SourceHasNext
    /\ \/ \E p \in (IF self["is_test"] THEN augmented ELSE generated) :
             /\ pulled' = Append(pulled, p)
             /\ i' = i + 1
             /\ data' = p[1]
             /\ name' = SplitAdditional(self["is_test"], p[2])[1]
             /\ truth' = SplitAdditional(self["is_test"], p[2])[2]
             /\ pc' = "enter"
             /\ UNCHANGED error
       \/ /\ Raise(External("iterer"))
          /\ UNCHANGED <<pulled, i, data, name, truth>>
    /\ UNCHANGED <<session, impl, self, estimator, scopes,
                   nets, inputs, predictions, truths, names, net, prediction, registered>>
    /\ UNCHANGED <<its, active, ret>>

\* with self._gpu_context(i):
EnterScope ==
    /\ pc = "enter"
    /\ scopes' = EnterContext(scopes, InitOwner, i)
    /\ pc' = "build"
    /\ UNCHANGED <<session, impl, self, estimator, error, pulled, locals, registered>>
    /\ UNCHANGED <<its, active, ret>>

\* net = TFNet(self.session, model, data, bool(nets)) inside the with block;
\* an exception of the builder leaves the with block.
BuildNet(outs) ==
    /\ pc = "build"
    /\ \/ \E out \in outs :
             /\ net' = TFNet(session, data, ReuseFlag(nets), scopes, out)
             /\ pc' = "built"
             /\ UNCHANGED <<scopes, error>>
       \/ /\ scopes' = ExitContext(scopes, InitOwner)
          /\ Raise(External("TFNet"))
          /\ UNCHANGED net
    /\ UNCHANGED <<session, impl, self, estimator, pulled, i,
                   nets, inputs, predictions, truths, names,
                   data, name, truth, prediction, registered>>
    /\ UNCHANGED <<its, active, ret>>

\* The end of the with block.
ExitScope ==
    /\ pc = "built"
    /\ scopes' = ExitContext(scopes, InitOwner)
    /\ pc' = "append_net"
    /\ UNCHANGED <<session, impl, self, estimator, error, pulled, locals, registered>>
    /\ UNCHANGED <<its, active, ret>>

AppendNetOnTask ==
    /\ pc = "append_net"
    /\ nets' = Append(nets, net)
    /\ self' = [a \in DOMAIN self \cup {"nets"} |-> IF a = "nets" THEN nets' ELSE self[a]]
    /\ pc' = "outputs"
    /\ UNCHANGED <<session, impl, estimator, scopes, error, pulled, i,
                   inputs, predictions, truths, names,
                   data, name, truth, net, prediction, registered>>
    /\ UNCHANGED <<its, active, ret>>

\* nets.append(net)
AppendNet ==
    /\ pc = "append_net"
    /\ nets' = Append(nets, net)
    /\ pc' = "outputs"
    /\ UNCHANGED <<session, impl, self, estimator, scopes, error, pulled, i,
                   inputs, predictions, truths, names,
                   data, name, truth, net, prediction, registered>>
    /\ UNCHANGED <<its, active, ret>>

\* prediction = net.outputs()
Outputs ==
    /\ pc = "outputs"
    /\ \/ /\ prediction' = net.out
          /\ pc' = "transform"
          /\ UNCHANGED error
       \/ /\ Raise(External("outputs"))
          /\ UNCHANGED prediction
    /\ UNCHANGED <<session, impl, self, estimator, scopes, pulled, i,
                   nets, inputs, predictions, truths, names,
                   data, name, truth, net, registered>>
    /\ UNCHANGED <<its, active, ret>>

\* data, prediction, truth = self.transform(net, data, prediction, truth)
ApplyTransform ==
    /\ pc = "transform"
    /\ \/ LET r == Transform(impl, net, data, prediction, truth)
          IN  /\ data' = r[1]
              /\ prediction' = r[2]
              /\ truth' = r[3]
              /\ pc' = IF IsFirstReplica(i) THEN "register" ELSE "append"
              /\ UNCHANGED error
       \/ /\ "transform" \in impl
          /\ Raise(External("transform"))
          /\ UNCHANGED <<data, prediction, truth>>
    /\ UNCHANGED <<session, impl, self, estimator, scopes, pulled, i,
                   nets, inputs, predictions, truths, names,
                   name, net, registered>>
    /\ UNCHANGED <<its, active, ret>>

\* self._register_estimates(prediction, truth); estimator.register may
\* raise, after any number of the calls have been made.
Register ==
    /\ pc = "register"
    /\ registered' = Append(registered, <<prediction, truth>>)
    /\ LET calls == RegisterEstimates(prediction, truth, self["mode"])
       IN  \/ /\ estimator' = estimator \o calls
              /\ pc' = "append"
              /\ UNCHANGED error
           \/ \E n \in 0..(Len(calls) - 1) :
                 /\ estimator' = estimator \o SubSeq(calls, 1, n)
                 /\ Raise(External("register"))
    /\ UNCHANGED <<session, impl, self, scopes, pulled, locals>>
    /\ UNCHANGED <<its, active, ret>>

AppendRestInFront ==
    /\ pc = "append"
    /\ inputs' = Append(inputs, data)
    /\ predictions' = Append(predictions, prediction)
    /\ truths' = <<truth>> \o truths
    /\ names' = Append(names, name)
    /\ pc' = "next"
    /\ UNCHANGED <<session, impl, self, estimator, scopes, error, pulled, i,
                   nets, data, name, truth, net, prediction, registered>>
    /\ UNCHANGED <<its, active, ret>>

\* inputs.append(data) ... names.append(name)
AppendRest ==
    /\ pc = "append"
    /\ inputs' = Append(inputs, data)
    /\ predictions' = Append(predictions, prediction)
    /\ truths' = Append(truths, truth)
    /\ names' = Append(names, name)
    /\ pc' = "next"
    /\ UNCHANGED <<session, impl, self, estimator, scopes, error, pulled, i,
                   nets, data, name, truth, net, prediction, registered>>
    /\ UNCHANGED <<its, active, ret>>

\* The loop ends; self.nets = nets ... self.names = names
Publish ==
    /\ pc = "next"
    /\ ~SourceHasNext
    /\ self' = self @@ ("nets" :> nets) @@ ("inputs" :> inputs)
                 @@ ("predictions" :> predictions) @@ ("truths" :> truths)
                 @@ ("names" :> names)
    /\ pc' = "ready"
    /\ UNCHANGED <<session, impl, estimator, scopes, error, pulled, locals, registered>>
    /\ UNCHANGED <<its, active, ret>>

\* ------------------------------------------------------------------------
\* map(func): a generator.  Its frame runs only between a next() of the
\* consumer and the following yield, return or exception.
\* ------------------------------------------------------------------------
\* self.map(func): nothing of the body runs yet.
MapCall(k, f) ==
    /\ pc = "ready"
    /\ active = 0
    /\ its[k].st = "none"
    /\ \A j \in Iters : j < k => its[j].st # "none"
    /\ its' = [its EXCEPT ![k] = [NoIter EXCEPT !.st = "created", !.func = f]]
    /\ UNCHANGED <<consVars, active, ret>>

\* next(): the frame starts, or resumes after the yield, which ends the
\* with block.
MapResume(k) ==
    /\ active = 0
    /\ its[k].st \in {"created", "suspended"}
    /\ scopes' = IF its[k].st = "suspended" THEN ExitContext(scopes, MapOwner(k)) ELSE scopes
    /\ its' = [its EXCEPT ![k].st = "loop", ![k].nexts = @ + 1]
    /\ active' = k
    /\ UNCHANGED <<session, impl, self, estimator, pc, error, pulled, locals, registered, ret>>

\* for i, (net, prediction, truth) in iterer: with self._gpu_context(i):
\* or the end of the loop.
MapAdvance(k) ==
    /\ active = k
    /\ its[k].st = "loop"
    /\ IF its[k].i + 1 < Len(Zip(self["nets"], self["predictions"], self["truths"]))
       THEN /\ its' = [its EXCEPT ![k].i = @ + 1, ![k].st = "with"]
            /\ scopes' = EnterContext(scopes, MapOwner(k), its[k].i + 1)
            /\ UNCHANGED active
       ELSE /\ its' = [its EXCEPT ![k].st = "done"]
            /\ active' = 0
            /\ UNCHANGED scopes
    /\ UNCHANGED <<session, impl, self, estimator, pc, error, pulled, locals, registered, ret>>

\* Whether calling f raises the NotImplementedError of the base class.
IsDefault(f) == f \in Required /\ f \notin impl

MapYieldOutsideScope(k) ==
    /\ active = k
    /\ its[k].st = "with"
    /\ LET triple == Zip(self["nets"], self["predictions"], self["truths"])[its[k].i + 1]
       IN  \/ /\ ~IsDefault(its[k].func)
              /\ its' = [its EXCEPT ![k].st = "suspended",
                            ![k].results = Append(@, FuncVal(its[k].func, triple, scopes))]
           \/ /\ its' = [its EXCEPT ![k].st = "raised",
                            ![k].error = IF IsDefault(its[k].func)
                                         THEN Unimplemented(its[k].func)
                                         ELSE External(its[k].func)]
    /\ scopes' = ExitContext(scopes, MapOwner(k))
    /\ active' = 0
    /\ UNCHANGED <<session, impl, self, estimator, pc, error, pulled, locals, registered, ret>>

\* yield func(net, prediction, truth): func returns and the frame is
\* suspended inside the with block, or func raises, which leaves the with
\* block and ends the generator.
MapYield(k) ==
    /\ active = k
    /\ its[k].st = "with"
    /\ LET triple == Zip(self["nets"], self["predictions"], self["truths"])[its[k].i + 1]
       IN  \/ /\ ~IsDefault(its[k].func)
              /\ its' = [its EXCEPT ![k].st = "suspended",
                            ![k].results = Append(@, FuncVal(its[k].func, triple, scopes))]
              /\ UNCHANGED scopes
           \/ /\ its' = [its EXCEPT ![k].st = "raised",
                            ![k].error = IF IsDefault(its[k].func)
                                         THEN Unimplemented(its[k].func)
                                         ELSE External(its[k].func)]
              /\ scopes' = ExitContext(scopes, MapOwner(k))
    /\ active' = 0
    /\ UNCHANGED <<session, impl, self, estimator, pc, error, pulled, locals, registered, ret>>

\* close(): GeneratorExit is raised at the yield, which leaves the with block.
MapClose(k) ==
    /\ active = 0
    /\ its[k].st \in {"created", "suspended"}
    /\ scopes' = IF its[k].st = "suspended" THEN ExitContext(scopes, MapOwner(k)) ELSE scopes
    /\ its' = [its EXCEPT ![k].st = "closed"]
    /\ UNCHANGED <<session, impl, self, estimator, pc, error, pulled, locals, registered,
                   active, ret>>

\* list(self.map(f)): every element in turn, each inside its with block.
\* The scopes it enters are left again before it returns or raises.
RunList(f) ==
    LET zipped == Zip(self["nets"], self["predictions"], self["truths"])
    IN  [k \in 1..Len(zipped) |-> FuncVal(f, zipped[k], EnterContext(scopes, ListOwner, k - 1))]

MapList(call, f) ==
    /\ pc = "ready"
    /\ active = 0
    /\ ret' = IF IsDefault(f) /\ Len(RunList(f)) > 0
              THEN [NoCall EXCEPT !.call = call, !.outcome = "raised",
                                  !.error = Unimplemented(f)]
              ELSE [NoCall EXCEPT !.call = call, !.outcome = "returned",
                                  !.value = RunList(f)]
    /\ UNCHANGED <<consVars, its, active>>

\* map_train() and map_eval()
MapTrain == MapList("map_train", "train")

MapEval == MapList("map_eval", "eval")

\* A direct call of an override point on the constructed task.
DirectCall(o) ==
    /\ pc = "ready"
    /\ active = 0
    /\ ret' = IF o \notin impl
              THEN [NoCall EXCEPT !.call = o, !.outcome = "raised", !.error = Unimplemented(o)]
              ELSE [NoCall EXCEPT !.call = o, !.outcome = "returned"]
    /\ UNCHANGED <<consVars, its, active>>

\* ------------------------------------------------------------------------
\* Specifications
\* ------------------------------------------------------------------------
\* Construction with every kind of input, then the eager and direct calls.
Init == InitWith(Sessions, Specializations)

Next ==
    \/ Construct
    \/ GetSource
    \/ NextPair(GeneratePairs, AugmentPairs)
    \/ EnterScope
    \/ BuildNet(OutputVals)
    \/ ExitScope
    \/ AppendNet
    \/ Outputs
    \/ ApplyTransform
    \/ Register
    \/ AppendRest
    \/ Publish
    \/ MapTrain
    \/ MapEval
    \/ \E o \in Required : DirectCall(o)

Spec == Init /\ [][Next]_vars

\* Construction with fewer kinds of input, then generators of map() that
\* the consumer interleaves.
MapSpecializations ==
    { {"generate", "augment", "train"}, {"generate", "augment", "eval"} }

MapGeneratePairs == { <<Tensor("d0"), Tensor("t")>>,
                      <<Tensor("d1"), Mapping(<< <<"class", Tensor("t")>> >>)>> }

MapAugmentPairs == { <<Tensor("d0"), Str(<<"img0">>)>>, <<Tensor("d1"), Str(<<"img1">>)>> }

MapOutputVals == { Tensor("p") }

MapInit == InitWith(Sessions, MapSpecializations)

MapNext ==
    \/ Construct
    \/ GetSource
    \/ NextPair(MapGeneratePairs, MapAugmentPairs)
    \/ EnterScope
    \/ BuildNet(MapOutputVals)
    \/ ExitScope
    \/ AppendNet
    \/ Outputs
    \/ ApplyTransform
    \/ Register
    \/ AppendRest
    \/ Publish
    \/ MapTrain
    \/ MapEval
    \/ \E k \in Iters, f \in MapFuncs : MapCall(k, f)
    \/ \E k \in Iters : MapResume(k)
    \/ \E k \in Iters : MapAdvance(k)
    \/ \E k \in Iters : MapYield(k)
    \/ \E k \in Iters : MapClose(k)

MapSpec == MapInit /\ [][MapNext]_vars
\* ------------------------------------------------------------------------
\* Properties
\* ------------------------------------------------------------------------
Published == {"nets", "inputs", "predictions", "truths", "names"}

Replicas == 1..self["num_gpus"]

\* What replica k hands to transform, and what transform gives back.
TruthIn(k) == IF self["is_test"] THEN None ELSE pulled[k][2]

AfterTransform(k) ==
    Transform(impl, self["nets"][k], pulled[k][1], self["nets"][k].out, TruthIn(k))

RECURSIVE LeafCalls(_, _, _)
LeafCalls(path, value, history) ==
    IF ~IsMapping(value)
    THEN { RegisterCall(value, Str(path), history) }
    ELSE UNION { LeafCalls(path \o <<value.val[k][1]>>, value.val[k][2], history) :
                    k \in 1..Len(value.val) }

ClaimedHistory == IF self["mode"] = "validate" THEN Str(<<"infinite">>) ELSE None

\* C4: the register calls of a construction are exactly one per leaf of
\* replica 0's prediction and truth after transform, each under its dotted
\* path, each with history 'infinite' exactly in validate mode.
C4_OneCallPerLeaf ==
    pc = "ready" =>
        LET claimed ==
                LeafCalls(<<"prediction">>, self["predictions"][1], ClaimedHistory)
                    \cup LeafCalls(<<"truth">>, self["truths"][1], ClaimedHistory)
        IN  /\ { estimator[k] : k \in 1..Len(estimator) } = claimed
            /\ Len(estimator) = Cardinality(claimed)

\* C6 as stated: construction never fails because an override is missing,
\* and a direct call of a missing override raises.
C6_NeverAtConstruction ==
    /\ pc = "failed" => error.kind # "NotImplementedError"
    /\ (ret.call \in Required /\ ret.call \notin impl) =>
          /\ ret.outcome = "raised"
          /\ ret.error = Unimplemented(ret.call)

\* C6 amended: construction calls generate() (augment() for a test session)
\* first of all, so it fails with the error exactly when that one override
\* is missing, before any pair is taken; no other missing override makes it
\* fail; a direct call of a missing override raises.
C6_AtFirstInvocation ==
    /\ (pc = "failed" /\ error.kind = "NotImplementedError") =>
          /\ error.what = (IF session.type = "Test" THEN "augment" ELSE "generate")
          /\ error.what \notin impl
          /\ pulled = <<>> /\ estimator = <<>>
    /\ (IF session.type = "Test" THEN "augment" ELSE "generate") \notin impl =>
          pc \in {"new", "source", "failed"}
    /\ (ret.call \in Required /\ ret.call \notin impl) =>
          /\ ret.outcome = "raised"
          /\ ret.error = Unimplemented(ret.call)

C6_Witness ==
    /\ pc = "ready"
    /\ impl = {"augment", "test"}
    /\ ret.call = "generate"
    /\ ret.outcome = "raised"

\* The steps one replica goes through after its net is built.
AfterBuild == {"outputs", "transform", "register", "append"}

ReplicaOrder ==
    /\ i = Len(pulled) - 1
    /\ \A k \in 1..Len(nets) :
          /\ nets[k].ctx = GpuContext(k - 1)
          /\ nets[k].reuse = (k > 1)
          /\ nets[k].data = pulled[k][1]
    /\ pc \in {"build", "built"} => Innermost(scopes) = GpuContext(i)
    /\ pc \in AfterBuild => scopes = <<>>
    /\ pc = "transform" => prediction = net.out
    /\ pc \in {"register", "append"} =>
          <<data, prediction, truth>> =
              Transform(impl, net, pulled[i + 1][1], net.out,
                        IF session.type = "Test" THEN None ELSE pulled[i + 1][2])
    /\ pc = "register" => i = 0 /\ registered = <<>>
    /\ pc = "append" => Len(registered) = 1
    /\ pc \in AfterBuild =>
          /\ Len(inputs) = i /\ Len(predictions) = i
          /\ Len(truths) = i /\ Len(names) = i

\* C8 as stated: replicas are built in device order, the reuse flag is false
\* for replica 0 only, and a replica is appended to the sequences only after
\* outputs, transform and registration.
C8_AppendAfterRegistration ==
    /\ ReplicaOrder
    /\ pc \in AfterBuild => Len(nets) = i

\* C8 amended: the net is appended to nets right after it is built, before
\* outputs is queried; the other sequences are appended to last.
C8_NetAppendedFirst ==
    /\ ReplicaOrder
    /\ pc \in AfterBuild => Len(nets) = i + 1 /\ nets[i + 1] = net
    /\ pc \in {"enter", "build", "built", "append_net"} => Len(nets) = i

C8_Witness ==
    /\ pc = "outputs"
    /\ i = 1
    /\ net.reuse
    /\ Len(inputs) = 1

\* C9: when construction fails, none of nets, inputs, predictions, truths,
\* names is assigned on the task, whatever was built; the registrations made
\* for replica 0 stay.
C9_AllOrNothing ==
    /\ pc # "ready" => Published \cap DOMAIN self = {}
    /\ pc = "ready" => Published \subseteq DOMAIN self
    /\ (pc = "failed" /\ Len(inputs) >= 1) =>
          estimator = RegisterEstimates(predictions[1], truths[1], session.mode)
    /\ (pc = "failed" /\ error = External("register")) =>
          /\ Len(estimator) < Len(RegisterEstimates(prediction, truth, session.mode))
          /\ estimator = SubSeq(RegisterEstimates(prediction, truth, session.mode),
                                1, Len(estimator))

C9_Witness ==
    /\ pc = "failed"
    /\ error = External("outputs")
    /\ Len(inputs) = 1
    /\ Len(nets) = 2
    /\ Len(estimator) >= 2
\* What func gives for replica k: it is called with the k-th net, prediction
\* and truth while the scope of device k - 1 is the innermost one.
ExpectedVal(f, k) ==
    [f |-> f, net |-> self["nets"][k], prediction |-> self["predictions"][k],
     truth |-> self["truths"][k], ctx |-> GpuContext(k - 1)]

ExpectedList(f) == [k \in Replicas |-> ExpectedVal(f, k)]

Owners(stack) == { stack[k].owner : k \in 1..Len(stack) }

\* C7: every device scope that is entered is left again, also when the net
\* builder or func raises: none of construction is active once construction
\* has returned or raised, none of a generator once it is exhausted, has
\* raised or is closed, and an owner never has two scopes at once.
C7_ScopesReleased ==
    /\ \A k \in 1..Len(scopes), j \in 1..Len(scopes) :
          scopes[k].owner = scopes[j].owner => k = j
    /\ InitOwner \in Owners(scopes) <=> pc \in {"build", "built"}
    /\ \A k \in Iters : MapOwner(k) \in Owners(scopes) <=> its[k].st \in {"with", "suspended"}
    /\ Owners(scopes) \subseteq {InitOwner} \cup { MapOwner(k) : k \in Iters }
    /\ \A k \in 1..Len(scopes) :
          /\ scopes[k].owner = InitOwner => scopes[k].ctx = GpuContext(i)
          /\ \A j \in Iters :
                scopes[k].owner = MapOwner(j) => scopes[k].ctx = GpuContext(its[j].i)
    /\ pc \in {"failed", "next"} => scopes = <<>>

C7_Witness ==
    /\ its[1].st = "raised"
    /\ its[1].i = 1
    /\ its[2].st = "done"
    /\ scopes = <<>>

ScopeOf(stack, k) == SelectSeq(stack, LAMBDA e : e.owner = MapOwner(k))

\* C10: func is called for a replica only when the consumer asks for that
\* element; the scope of that replica stays active while the generator is
\* suspended and is left when the consumer asks for the next element or
\* closes the generator, whatever scopes other generators entered since.
C10_LazyAndHeld ==
    /\ [](\A k \in Iters :
            /\ Len(its[k].results) <= its[k].nexts
            /\ its[k].i + 1 <= its[k].nexts
            /\ its[k].st \in {"with", "suspended", "raised"} => its[k].i + 1 = its[k].nexts
            /\ its[k].st = "created" => its[k].nexts = 0 /\ ScopeOf(scopes, k) = <<>>
            /\ its[k].st = "suspended" =>
                  /\ Len(its[k].results) = its[k].i + 1
                  /\ ScopeOf(scopes, k) = <<[owner |-> MapOwner(k), ctx |-> GpuContext(its[k].i)]>>)
    /\ [][\A k \in Iters :
            /\ (ScopeOf(scopes, k) # <<>> /\ ScopeOf(scopes', k) = <<>>) =>
                  \/ its[k].st = "suspended" /\ its'[k].st \in {"loop", "closed"}
                  \/ its[k].st = "with" /\ its'[k].st = "raised"
            /\ (its[k].st = "suspended" /\ its'[k].st \in {"loop", "closed"}) =>
                  /\ ScopeOf(scopes', k) = <<>>
                  /\ \A j \in Iters \ {k} : ScopeOf(scopes', j) = ScopeOf(scopes, j)]_vars

\* Two generators are suspended with their scopes active together, the
\* first one's entered first; the consumer may resume that one first.
C10_Witness ==
    /\ its[1].st = "suspended"
    /\ its[2].st = "suspended"
    /\ Len(scopes) = 2
    /\ scopes[1].owner = MapOwner(1)
    /\ scopes[2].owner = MapOwner(2)
    /\ active = 0
====
